---- MODULE Spec2Model ----
(***************************************************************************)
(* A model of transcribe.py: the YouTube audio -> Deepgram transcript      *)
(* pipeline with its two on-disk caches (downloaded_audio/, transcripts/). *)
(*                                                                         *)
(* Text (a Python str) is a sequence of Unicode code points; the content   *)
(* of a file is a sequence of bytes.  A Python dict is the sequence of its *)
(* items.  None is NoneVal where a str is expected and NoneDict where a    *)
(* dict is; a local that holds no number yet is Unbound.                   *)
(***************************************************************************)
EXTENDS Integers, Sequences, FiniteSets, TLC

NoneVal == <<-1>>

NoneDict == <<<<-1>>>>

Unbound == 0 - 1

\* no exception is being propagated
NoException == "None"

Min(a, b) == IF a <= b THEN a ELSE b

\* The element of a set of one element.  The({e : v \in {x}}) is e for v = x,
\* with x evaluated once, as the code evaluates the value it assigns to a
\* local or passes to a call.
The(S) == CHOOSE r \in S : TRUE

\* the concatenation of the sequences of ss, by halves
RECURSIVE Concat(_)
Concat(ss) ==
    IF Len(ss) = 0 THEN <<>>
    ELSE IF Len(ss) = 1 THEN ss[1]
    ELSE LET half == Len(ss) \div 2
         IN  The({Concat(v) : v \in {SubSeq(ss, 1, half)}})
                \o The({Concat(v) : v \in {SubSeq(ss, half + 1, Len(ss))}})

(***************************************************************************)
(* str.find, str.split(sep) and str.join                                   *)
(***************************************************************************)
Find(s, sep) ==
    LET hits == {k \in 1..(Len(s) - Len(sep) + 1) : SubSeq(s, k, k + Len(sep) - 1) = sep}
    IN  IF hits = {} THEN 0 ELSE CHOOSE k \in hits : \A j \in hits : k <= j

RECURSIVE Split(_, _)
Split(s, sep) ==
    LET k == Find(s, sep)
    IN  IF k = 0 THEN <<s>>
        ELSE <<SubSeq(s, 1, k - 1)>>
                \o The({Split(rest, sep) : rest \in {SubSeq(s, k + Len(sep), Len(s))}})

\* sep.join(parts)
Join(sep, parts) ==
    The({Concat(v) : v \in
            {[k \in 1..Len(parts) |-> IF k = 1 THEN parts[k] ELSE sep \o parts[k]]}})

(***************************************************************************)
(* The literals of the program, as code points.                            *)
(***************************************************************************)
\* "https://www.youtube.com/watch?v=OHWnPOKh_S0&pp=ygULbGV4IGZyaWRtYW4%3D"
YoutubeUrl ==
    <<104, 116, 116, 112, 115, 58, 47, 47, 119, 119, 119, 46, 121, 111, 117,
      116, 117, 98, 101, 46, 99, 111, 109, 47, 119, 97, 116, 99, 104, 63, 118,
      61, 79, 72, 87, 110, 80, 79, 75, 104, 95, 83, 48, 38, 112, 112, 61, 121,
      103, 85, 76, 98, 71, 86, 52, 73, 71, 90, 121, 97, 87, 82, 116, 89, 87,
      52, 37, 51, 68>>

\* "[Error transcribing this segment]"
Placeholder ==
    <<91, 69, 114, 114, 111, 114, 32, 116, 114, 97, 110, 115, 99, 114, 105,
      98, 105, 110, 103, 32, 116, 104, 105, 115, 32, 115, 101, 103, 109, 101,
      110, 116, 93>>

\* "video_id", "video_title", "transcript"
KeyVideoId == <<118, 105, 100, 101, 111, 95, 105, 100>>
KeyVideoTitle == <<118, 105, 100, 101, 111, 95, 116, 105, 116, 108, 101>>
KeyTranscript == <<116, 114, 97, 110, 115, 99, 114, 105, 112, 116>>

\* get_transcript_path() / f"{video_id}.json", as save_transcript names it
\* (lines 112-113, 121)
TranscriptFile(video_id) ==
    <<116, 114, 97, 110, 115, 99, 114, 105, 112, 116, 115, 47>> \o video_id
        \o <<46, 106, 115, 111, 110>>

\* (mutant) the lookup names the file ".txt": it never finds what was saved
ExistingTranscriptFileTxt(video_id) ==
    <<116, 114, 97, 110, 115, 99, 114, 105, 112, 116, 115, 47>> \o video_id
        \o <<46, 116, 120, 116>>

\* get_transcript_path() / f"{video_id}.json", as get_existing_transcript
\* names it (lines 26-27)
ExistingTranscriptFile(video_id) ==
    <<116, 114, 97, 110, 115, 99, 114, 105, 112, 116, 115, 47>> \o video_id
        \o <<46, 106, 115, 111, 110>>

\* get_download_path() / f"{video_id}.mp3" (lines 39-40)
AudioFile(video_id) ==
    <<100, 111, 119, 110, 108, 111, 97, 100, 101, 100, 95, 97, 117, 100, 105,
      111, 47>> \o video_id \o <<46, 109, 112, 51>>

(***************************************************************************)
(* url.split("v=")[1].split("&")[0]; IndexError when "v=" does not occur.  *)
(***************************************************************************)
IndexError == "IndexError"

SplitVideoId(url) ==
    The({(IF Len(parts) < 2 THEN IndexError
          ELSE The({Split(tail, <<38>>)[1] : tail \in {parts[2]}})) :
            parts \in {Split(url, <<118, 61>>)}})

\* main(), line 143
MainVideoId(url) == SplitVideoId(url)

\* download_youtube_audio(), line 38
DownloadVideoId(url) == SplitVideoId(url)

(***************************************************************************)
(* json.dump(data, f, ensure_ascii=False, indent=2) into a file opened     *)
(* with encoding='utf-8'.                                                  *)
(***************************************************************************)
HexDigit(n) == IF n < 10 THEN 48 + n ELSE 87 + n

\* (mutant) the quote and the backslash are written as they are
EscapeCharControlsOnly(c) ==
    IF c = 8 THEN <<92, 98>>
    ELSE IF c = 12 THEN <<92, 102>>
    ELSE IF c = 10 THEN <<92, 110>>
    ELSE IF c = 13 THEN <<92, 114>>
    ELSE IF c = 9 THEN <<92, 116>>
    ELSE IF c < 32 THEN <<92, 117, 48, 48, HexDigit(c \div 16), HexDigit(c % 16)>>
    ELSE <<c>>

\* json.encoder.py_encode_basestring: ESCAPE = [\x00-\x1f\\"\b\f\n\r\t]
EscapeChar(c) ==
    IF c = 92 THEN <<92, 92>>
    ELSE IF c = 34 THEN <<92, 34>>
    ELSE IF c = 8 THEN <<92, 98>>
    ELSE IF c = 12 THEN <<92, 102>>
    ELSE IF c = 10 THEN <<92, 110>>
    ELSE IF c = 13 THEN <<92, 114>>
    ELSE IF c = 9 THEN <<92, 116>>
    ELSE IF c < 32 THEN <<92, 117, 48, 48, HexDigit(c \div 16), HexDigit(c % 16)>>
    ELSE <<c>>

EncodeBasestring(s) ==
    <<34>> \o The({Concat(v) : v \in {[k \in 1..Len(s) |-> EscapeChar(s[k])]}}) \o <<34>>

\* data is a dict: the sequence of its <<key, value>> items.
\* With indent=2 the item separator is "," and each item starts on a new
\* line indented by two spaces; the key separator is ": ".
JsonDumpIndent2(data) ==
    IF data = <<>> THEN <<123, 125>>
    ELSE <<123>>
         \o Join(<<44>>, [k \in 1..Len(data) |->
                <<10, 32, 32>> \o EncodeBasestring(data[k][1]) \o <<58, 32>>
                    \o EncodeBasestring(data[k][2])])
         \o <<10, 125>>

Utf8EncodeChar(c) ==
    IF c < 128 THEN <<c>>
    ELSE IF c < 2048 THEN <<192 + (c \div 64), 128 + (c % 64)>>
    ELSE IF c < 65536 THEN
        <<224 + (c \div 4096), 128 + ((c \div 64) % 64), 128 + (c % 64)>>
    ELSE <<240 + (c \div 262144), 128 + ((c \div 4096) % 64),
           128 + ((c \div 64) % 64), 128 + (c % 64)>>

Utf8Encode(s) == The({Concat(v) : v \in {[k \in 1..Len(s) |-> Utf8EncodeChar(s[k])]}})


(***************************************************************************)
(* json.load(f) on a file opened with encoding='utf-8': UTF-8 decoding,    *)
(* then json.decoder.  The decoder is modelled for documents that are one  *)
(* object whose values are strings; Failed is any raised exception         *)
(* (UnicodeDecodeError, JSONDecodeError).                                  *)
(***************************************************************************)
Failed == [ok |-> FALSE]

IsCont(bs, p) == p <= Len(bs) /\ bs[p] >= 128 /\ bs[p] < 192

\* One step of the decoder at byte p: the code point decoded and the
\* position after it; st is "end" after the last byte, "failed" at an
\* invalid byte sequence.
Utf8Step(bs, p) ==
    IF p > Len(bs) THEN [st |-> "end", val |-> <<>>, pos |-> p]
    ELSE LET b == bs[p]
             width == IF b < 128 THEN 1
                      ELSE IF b >= 194 /\ b < 224 THEN 2
                      ELSE IF b >= 224 /\ b < 240 THEN 3
                      ELSE IF b >= 240 /\ b < 245 THEN 4
                      ELSE 0
             c == IF width = 1 THEN b
                  ELSE IF width = 2 THEN (b - 192) * 64 + (bs[p + 1] - 128)
                  ELSE IF width = 3 THEN
                      (b - 224) * 4096 + (bs[p + 1] - 128) * 64 + (bs[p + 2] - 128)
                  ELSE (b - 240) * 262144 + (bs[p + 1] - 128) * 4096
                          + (bs[p + 2] - 128) * 64 + (bs[p + 3] - 128)
             bad == \/ width = 0
                    \/ \E k \in 1..(width - 1) : ~IsCont(bs, p + k)
                    \/ width = 3 /\ (c < 2048 \/ (c >= 55296 /\ c < 57344))
                    \/ width = 4 /\ (c < 65536 \/ c > 1114111)
         IN  IF bad THEN [st |-> "failed", val |-> <<>>, pos |-> p]
             ELSE [st |-> "more", val |-> <<c>>, pos |-> p + width]

\* n steps of the decoder from byte p on, done in two halves
RECURSIVE Utf8Steps(_, _, _)
Utf8Steps(bs, p, n) ==
    IF n <= 1 THEN Utf8Step(bs, p)
    ELSE The({(IF first.st # "more" THEN first
               ELSE The({[st |-> second.st, val |-> first.val \o second.val,
                          pos |-> second.pos] :
                            second \in {Utf8Steps(bs, first.pos, n - n \div 2)}})) :
                first \in {Utf8Steps(bs, p, n \div 2)}})

\* bytes.decode('utf-8'): at most Len(bs) + 1 steps reach the end
Utf8Decode(bs) ==
    The({(IF all.st = "end" THEN [ok |-> TRUE, val |-> all.val] ELSE Failed) :
            all \in {Utf8Steps(bs, 1, Len(bs) + 1)}})

\* WHITESPACE = [ \t\n\r]*
RECURSIVE SkipWs(_, _)
SkipWs(s, p) ==
    IF p <= Len(s) /\ s[p] \in {32, 9, 10, 13} THEN SkipWs(s, p + 1) ELSE p

IsHex(c) == (c >= 48 /\ c <= 57) \/ (c >= 97 /\ c <= 102) \/ (c >= 65 /\ c <= 70)

HexVal(c) == IF c <= 57 THEN c - 48 ELSE IF c >= 97 THEN c - 87 ELSE c - 55

\* _decode_uXXXX: the four hex digits at p..p+3, or -1
DecodeUXXXX(s, p) ==
    IF p + 3 <= Len(s) /\ \A k \in p..(p + 3) : IsHex(s[k])
    THEN HexVal(s[p]) * 4096 + HexVal(s[p + 1]) * 256 + HexVal(s[p + 2]) * 16
            + HexVal(s[p + 3])
    ELSE -1

\* BACKSLASH: the one-character escapes
Backslash(e) ==
    IF e = 34 THEN 34 ELSE IF e = 92 THEN 92 ELSE IF e = 47 THEN 47
    ELSE IF e = 98 THEN 8 ELSE IF e = 102 THEN 12 ELSE IF e = 110 THEN 10
    ELSE IF e = 114 THEN 13 ELSE IF e = 116 THEN 9 ELSE -1

\* One turn of py_scanstring's loop at position p (strict=True): the
\* character read and the position after it; st is "closed" at the closing
\* quote, "failed" at the end of the text, a control character or an
\* invalid escape.
ScanStep(s, p) ==
    IF p > Len(s) THEN [st |-> "failed", val |-> <<>>, pos |-> p]
    ELSE IF s[p] = 34 THEN [st |-> "closed", val |-> <<>>, pos |-> p + 1]
    ELSE IF s[p] < 32 THEN [st |-> "failed", val |-> <<>>, pos |-> p]
    ELSE LET uni == DecodeUXXXX(s, p + 2)
             uni2 == DecodeUXXXX(s, p + 8)
             high == /\ uni >= 55296 /\ uni <= 56319
                     /\ p + 7 <= Len(s) /\ s[p + 6] = 92 /\ s[p + 7] = 117
             \* the number of characters the turn takes; 0 for an invalid escape
             took == IF s[p] # 92 THEN 1
                     ELSE IF p + 1 > Len(s) THEN 0
                     ELSE IF s[p + 1] # 117 THEN
                         (IF Backslash(s[p + 1]) < 0 THEN 0 ELSE 2)
                     ELSE IF uni < 0 THEN 0
                     ELSE IF high /\ uni2 < 0 THEN 0
                     ELSE IF high /\ uni2 >= 56320 /\ uni2 <= 57343 THEN 12
                     ELSE 6
             char == IF took = 1 THEN s[p]
                     ELSE IF took = 2 THEN Backslash(s[p + 1])
                     ELSE IF took = 12 THEN
                         65536 + (uni - 55296) * 1024 + (uni2 - 56320)
                     ELSE uni
         IN  IF took = 0 THEN [st |-> "failed", val |-> <<>>, pos |-> p]
             ELSE [st |-> "more", val |-> <<char>>, pos |-> p + took]

\* n turns of the loop from position p on, done in two halves
RECURSIVE ScanSteps(_, _, _)
ScanSteps(s, p, n) ==
    IF n <= 1 THEN ScanStep(s, p)
    ELSE The({(IF first.st # "more" THEN first
               ELSE The({[st |-> second.st, val |-> first.val \o second.val,
                          pos |-> second.pos] :
                            second \in {ScanSteps(s, first.pos, n - n \div 2)}})) :
                first \in {ScanSteps(s, p, n \div 2)}})

\* py_scanstring(s, end, strict=True): the string from position p on (after
\* its opening quote); the result's pos is the position after the closing
\* quote.  At most Len(s) + 1 turns close the string or fail.
ScanString(s, p) ==
    The({(IF all.st = "closed" THEN [ok |-> TRUE, val |-> all.val, pos |-> all.pos]
          ELSE Failed) :
            all \in {ScanSteps(s, p, Len(s) + 1)}})

\* A dict is the sequence of its <<key, value>> items, in insertion order.
EmptyDict == <<>>

DictHas(d, key) == \E k \in 1..Len(d) : d[k][1] = key

DictGet(d, key) == d[CHOOSE k \in 1..Len(d) : d[k][1] = key][2]

\* d[key] = value
DictSet(d, key, value) ==
    IF DictHas(d, key)
    THEN [k \in 1..Len(d) |-> IF d[k][1] = key THEN <<key, value>> ELSE d[k]]
    ELSE Append(d, <<key, value>>)

\* JSONObject's loop, one item a turn: p is the position after the quote
\* that opens a key, d the dict built so far (a later duplicate key wins).
RECURSIVE ScanPairs(_, _, _)

\* a "," or the closing "}" follows the value
AfterValue(s, d, nxt) ==
    IF nxt > Len(s) THEN Failed
    ELSE IF s[nxt] = 125 THEN [ok |-> TRUE, val |-> d, pos |-> nxt + 1]
    ELSE IF s[nxt] # 44 THEN Failed
    ELSE The({(IF q > Len(s) \/ s[q] # 34 THEN Failed ELSE ScanPairs(s, q + 1, d)) :
                q \in {SkipWs(s, nxt + 1)}})

\* the value (a string) is scanned and stored under the key
ValueAt(s, d, key, value) ==
    IF ~value.ok THEN Failed
    ELSE The({AfterValue(s, pairs, nxt) :
                pairs \in {DictSet(d, key, value.val)}, nxt \in {SkipWs(s, value.pos)}})

\* the ":" and the quote that opens the value follow the key
AfterKey(s, d, key, colon) ==
    IF colon > Len(s) \/ s[colon] # 58 THEN Failed
    ELSE The({(IF q > Len(s) \/ s[q] # 34 THEN Failed
               ELSE The({ValueAt(s, d, key, value) : value \in {ScanString(s, q + 1)}})) :
                q \in {SkipWs(s, colon + 1)}})

KeyAt(s, d, key) ==
    IF ~key.ok THEN Failed
    ELSE The({AfterKey(s, d, key.val, colon) : colon \in {SkipWs(s, key.pos)}})

ScanPairs(s, p, d) == The({KeyAt(s, d, key) : key \in {ScanString(s, p)}})

\* the object that opens at position p ("{"); q is the position of what
\* follows the "{"
ObjectAt(s, q) ==
    IF q > Len(s) THEN Failed
    ELSE IF s[q] = 125 THEN [ok |-> TRUE, val |-> EmptyDict, pos |-> q + 1]
    ELSE IF s[q] = 34 THEN ScanPairs(s, q + 1, EmptyDict)
    ELSE Failed

\* nothing but whitespace may follow the document
WholeDocument(s, obj) ==
    IF ~obj.ok THEN Failed
    ELSE IF SkipWs(s, obj.pos) <= Len(s) THEN Failed
    ELSE [ok |-> TRUE, val |-> obj.val]

DocumentAt(s, p) ==
    IF p > Len(s) \/ s[p] # 123 THEN Failed
    ELSE The({WholeDocument(s, obj) : obj \in {ObjectAt(s, SkipWs(s, p + 1))}})

\* json.loads(s): one object, surrounded by whitespace only
JsonLoads(s) == The({DocumentAt(s, p) : p \in {SkipWs(s, 1)}})

DecodedDocument(text) == IF ~text.ok THEN Failed ELSE JsonLoads(text.val)

\* json.load(open(path, 'r', encoding='utf-8'))
JsonLoadFile(bytes) == The({DecodedDocument(v) : v \in {Utf8Decode(bytes)}})

\* json.dump(data, open(path, 'w', encoding='utf-8'), ensure_ascii=False, indent=2)
JsonDumpFile(data) == The({Utf8Encode(v) : v \in {JsonDumpIndent2(data)}})


(***************************************************************************)
(* Bounds of the model and the sets its inputs are drawn from.             *)
(***************************************************************************)
MaxRuns == 3        \* runs of main() in a row
MaxChunks == 2      \* chunks of the longest audio main() is given
MaxAudioMs == 5     \* longest audio given to transcribe_audio_file directly
MaxChunkMs == 3     \* largest chunk_size_ms given to it directly

\* chunk_size_ms=5 * 60 * 1000 (line 158; also the default of line 84)
ChunkSizeMain == 300000

\* DEEPGRAM_API_KEY after load_dotenv(): unset, empty, or "k"
EnvKeys == {NoneVal, <<>>, <<107>>}

\* what Deepgram returns as a chunk's transcript: "a b", "é"
Replies == {<<97, 32, 98>>, <<233>>}

\* info of yt_dlp.extract_info: with a title ("T"), or without one
Infos == {[title |-> <<84>>], [k \in {} |-> <<>>]}

\* the mp3 files: undecodable, or decodable with a length in milliseconds
AudioLengths ==
    {n \in {k * ChunkSizeMain + r : k \in 0..MaxChunks, r \in {0, 1, ChunkSizeMain - 1}} :
        n <= MaxChunks * ChunkSizeMain}

Undecodable == [decodable |-> FALSE, ms |-> 0]

AudioObjects == {[decodable |-> TRUE, ms |-> n] : n \in AudioLengths} \cup {Undecodable}

(***************************************************************************)
(* The state.                                                               *)
(***************************************************************************)
VARIABLES
    environ,            \* os.getenv("DEEPGRAM_API_KEY")
    youtube_url,        \* main: youtube_url
    fs_transcripts,     \* the files of transcripts/: path -> bytes
    fs_audio,           \* the files of downloaded_audio/: path -> mp3
    entry,              \* the function the process was entered at
    pc,                 \* where the run is
    exc,                \* the exception being propagated, or NoException
    deepgram,           \* main: the DeepgramClient (its key), or NoneVal
    video_id,           \* main: video_id
    existing_transcript,\* main: existing_transcript (a dict, or NoneDict)
    audio_path,         \* main: audio_path
    video_title,        \* main: video_title
    transcript,         \* main: transcript
    chunk_size_ms,      \* transcribe_audio_file: chunk_size_ms
    audio,              \* transcribe_audio_file: len(audio)
    chunks,             \* transcribe_audio_file: chunks, each [from, to)
    transcripts,        \* transcribe_audio_file: transcripts
    i,                  \* transcribe_audio_file: i of enumerate(chunks, 1)
    temp_files,         \* the chunks whose NamedTemporaryFile exists
    in_flight,          \* the chunks whose transcribe_file call is outstanding
    stdout,             \* what was printed, one entry per print
    run,                \* history: the number of this run
    start,              \* history: the files as they were when the run started
    ydl_calls,          \* history: calls of ydl.extract_info in this run
    requests,           \* history: the chunks sent to Deepgram in this run
    outcomes,           \* history: per chunk, what its transcription met
    writes              \* history: writes of a transcript file, over all runs

fsVars == <<fs_transcripts, fs_audio>>
envVars == <<environ, youtube_url, entry, run, start>>
mainVars == <<deepgram, video_id, existing_transcript, audio_path, video_title, transcript>>
pipeVars == <<chunk_size_ms, audio, chunks, transcripts, i, temp_files, in_flight>>
histVars == <<ydl_calls, requests, outcomes, writes>>
vars == <<fsVars, envVars, mainVars, pipeVars, histVars, pc, exc, stdout>>

NoFiles == [p \in {} |-> <<>>]

Write(fs, path, content) ==
    [p \in DOMAIN fs \cup {path} |-> IF p = path THEN content ELSE fs[p]]

\* print(f"{fmt}{arg}"): one entry of stdout; "{}" is print(arg)
Echo(out, fmt, arg) == Append(out, <<fmt, arg>>)

\* a call returns: to its place in main(), or out of the function entered
Return(in_main) == IF entry = "main" THEN in_main ELSE "returned"


(***************************************************************************)
(* main(), lines 128-168                                                   *)
(***************************************************************************)
\* Python truthiness of a str or None
Truthy(v) == v # NoneVal /\ v # <<>>

\* (mutant) the process exits where the error is met, past the handler
RaiseAndExit(e) == pc' = "done" /\ exc' = e

\* raise: the exception leaves the function and propagates
Raise(e) == pc' = "raised" /\ exc' = e

\* (mutant) the key is not checked
KeyNeverMissing(key) == FALSE

\* line 133: if not deepgram_api_key
KeyMissing(key) == ~Truthy(key)

\* (mutant) the record found is not used
HasNoExisting(existing) == existing # NoneDict /\ existing = <<>>

\* line 147: if existing_transcript
HasExisting(existing) == existing # NoneDict /\ existing # <<>>

\* (mutant) the cached file is not looked for
AudioNeverCached(path) == FALSE

\* line 43: if output_path.exists()
AudioCached(path) == path \in DOMAIN fs_audio

\* lines 131-137: load_dotenv, getenv, the check, DeepgramClient(key)
LoadEnv ==
    /\ pc = "main"
    /\ IF KeyMissing(environ)
       THEN Raise("ValueError") /\ UNCHANGED deepgram
       ELSE pc' = "derive" /\ deepgram' = environ /\ UNCHANGED exc
    /\ UNCHANGED <<fsVars, envVars, pipeVars, histVars, stdout, video_id,
                   existing_transcript, audio_path, video_title, transcript>>

\* lines 140-143: video_id = youtube_url.split("v=")[1].split("&")[0]
DeriveVideoId ==
    /\ pc = "derive"
    /\ IF MainVideoId(youtube_url) = IndexError
       THEN Raise("IndexError") /\ UNCHANGED video_id
       ELSE /\ video_id' = MainVideoId(youtube_url)
            /\ pc' = IF entry = "main" THEN "lookup" ELSE "download"
            /\ UNCHANGED exc
    /\ UNCHANGED <<fsVars, envVars, pipeVars, histVars, stdout, deepgram,
                   existing_transcript, audio_path, video_title, transcript>>

\* get_existing_transcript(video_id), lines 24-33, called at line 146
GetExistingTranscript ==
    /\ pc = "lookup"
    /\ LET transcript_path == ExistingTranscriptFile(video_id) IN
       IF transcript_path \in DOMAIN fs_transcripts
       THEN /\ stdout' = Echo(stdout, "Using existing transcript: ", transcript_path)
            /\ LET loaded == JsonLoadFile(fs_transcripts[transcript_path]) IN
               IF loaded.ok
               THEN /\ existing_transcript' = loaded.val
                    /\ pc' = Return("checked")
                    /\ UNCHANGED exc
               ELSE Raise("JSONDecodeError") /\ UNCHANGED existing_transcript
       ELSE /\ existing_transcript' = NoneDict
            /\ pc' = Return("checked")
            /\ UNCHANGED <<exc, stdout>>
    /\ UNCHANGED <<fsVars, envVars, pipeVars, histVars, deepgram, video_id,
                   audio_path, video_title, transcript>>

\* lines 147-151: the cached transcript is printed and main returns
UseExisting ==
    /\ pc = "checked"
    /\ HasExisting(existing_transcript)
    /\ LET head == Echo(Echo(stdout, "\nTranscript:", <<>>), "-----------", <<>>) IN
       IF DictHas(existing_transcript, KeyTranscript)
       THEN /\ stdout' = Echo(head, "{}", DictGet(existing_transcript, KeyTranscript))
            /\ pc' = "done"
            /\ UNCHANGED exc
       ELSE stdout' = head /\ Raise("KeyError")
    /\ UNCHANGED <<fsVars, envVars, mainVars, pipeVars, histVars>>

\* line 147, the test fails: on to line 154
NoExisting ==
    /\ pc = "checked"
    /\ ~HasExisting(existing_transcript)
    /\ pc' = "download"
    /\ UNCHANGED <<fsVars, envVars, mainVars, pipeVars, histVars, exc, stdout>>

(***************************************************************************)
(* download_youtube_audio(url), lines 35-60, called at line 154            *)
(***************************************************************************)
\* lines 38-45: the mp3 is there already; the title is the video id
DownloadCached ==
    /\ pc = "download"
    /\ LET output_path == AudioFile(DownloadVideoId(youtube_url)) IN
       /\ AudioCached(output_path)
       /\ stdout' = Echo(stdout, "Using existing audio file: ", output_path)
       /\ audio_path' = output_path
       /\ video_title' = DownloadVideoId(youtube_url)
    /\ pc' = Return("transcribe")
    /\ UNCHANGED <<fsVars, envVars, pipeVars, histVars, exc, deepgram, video_id,
                   existing_transcript, transcript>>

\* lines 38-60: yt_dlp downloads and transcodes to output_path
DownloadFetch ==
    /\ pc = "download"
    /\ LET output_path == AudioFile(DownloadVideoId(youtube_url)) IN
       /\ ~AudioCached(output_path)
       /\ stdout' = Echo(stdout, "Downloading audio to: ", output_path)
       /\ ydl_calls' = ydl_calls + 1
       /\ \E mp3 \in AudioObjects, info \in Infos :
            /\ fs_audio' = Write(fs_audio, output_path, mp3)
            /\ audio_path' = output_path
            /\ video_title' = IF "title" \in DOMAIN info THEN info.title
                              ELSE DownloadVideoId(youtube_url)
    /\ pc' = Return("transcribe")
    /\ UNCHANGED <<fs_transcripts, envVars, pipeVars, requests, outcomes, writes,
                   exc, deepgram, video_id, existing_transcript, transcript>>

\* lines 58-59: the download or the transcoding fails
DownloadFails ==
    /\ pc = "download"
    /\ LET output_path == AudioFile(DownloadVideoId(youtube_url)) IN
       /\ ~AudioCached(output_path)
       /\ stdout' = Echo(stdout, "Downloading audio to: ", output_path)
    /\ ydl_calls' = ydl_calls + 1
    /\ Raise("DownloadError")
    /\ UNCHANGED <<fsVars, envVars, mainVars, pipeVars, requests, outcomes, writes>>

(***************************************************************************)
(* transcribe_audio_file(file_path, deepgram_client, chunk_size_ms),       *)
(* lines 84-108, called at lines 156-158                                   *)
(***************************************************************************)
\* range(start, stop, step) for step > 0
RECURSIVE Range(_, _, _)
Range(a, b, step) == IF a >= b THEN <<>> ELSE <<a>> \o Range(a + step, b, step)

\* (mutant) the last chunk is padded to the full chunk size
SlicePadded(n, a, b) == [from |-> a, to |-> b]

\* audio[a:b] for an audio of n ms: pydub clamps both ends to len(audio)
Slice(n, a, b) == [from |-> Min(a, n), to |-> Min(b, n)]

\* lines 90-92
SplitChunks(n, size) ==
    LET starts == Range(0, n, size)
    IN  [k \in 1..Len(starts) |-> Slice(n, starts[k], starts[k] + size)]

\* lines 86-94: the file is decoded and split
LoadAudio ==
    /\ pc = "transcribe"
    /\ LET size == IF entry = "main" THEN ChunkSizeMain ELSE chunk_size_ms
           out == IF entry = "main" THEN Echo(stdout, "Transcribing audio...", <<>>)
                  ELSE stdout
       IN
       /\ chunk_size_ms' = size
       /\ IF ~fs_audio[audio_path].decodable
          THEN /\ Raise("CouldntDecodeError")
               /\ stdout' = Echo(out, "Loading audio file...", <<>>)
               /\ UNCHANGED <<audio, chunks, transcripts, i>>
          ELSE /\ audio' = fs_audio[audio_path].ms
               /\ chunks' = SplitChunks(fs_audio[audio_path].ms, size)
               /\ stdout' = Echo(Echo(out, "Loading audio file...", <<>>),
                                 "Processing chunks: ",
                                 Len(SplitChunks(fs_audio[audio_path].ms, size)))
               /\ transcripts' = <<>>
               /\ i' = 1
               /\ pc' = "chunk"
               /\ UNCHANGED exc
    /\ UNCHANGED <<fsVars, envVars, mainVars, histVars, temp_files, in_flight>>

\* line 102
OnChunkTranscript(ts, text) == Append(ts, text)

\* (mutant) a failed chunk leaves no segment
OnChunkErrorDropped(ts) == ts

\* lines 103-105
OnChunkError(ts) == Append(ts, Placeholder)

\* lines 98-99, 65-66: the next chunk; its temporary file is made and the
\* chunk exported to it
ExportChunk ==
    /\ pc = "chunk"
    /\ i <= Len(chunks)
    /\ stdout' = Echo(stdout, "Transcribing chunk ", <<i, Len(chunks)>>)
    /\ temp_files' = temp_files \cup {i}
    /\ pc' = "request"
    /\ UNCHANGED <<fsVars, envVars, mainVars, histVars, exc, chunk_size_ms, audio,
                   chunks, transcripts, i, in_flight>>

\* lines 98-99, 65-66, 103-105: the export raises; the with statement
\* removes the temporary file, the loop's handler records the placeholder
ExportFails ==
    /\ pc = "chunk"
    /\ i <= Len(chunks)
    /\ stdout' = Echo(Echo(stdout, "Transcribing chunk ", <<i, Len(chunks)>>),
                      "Error processing chunk ", i)
    /\ transcripts' = OnChunkError(transcripts)
    /\ outcomes' = Append(outcomes, [failed |-> TRUE, sent |-> FALSE, reply |-> NoneVal])
    /\ i' = i + 1
    /\ UNCHANGED <<fsVars, envVars, mainVars, exc, pc, chunk_size_ms, audio, chunks,
                   temp_files, in_flight, ydl_calls, requests, writes>>

\* lines 68-81: the file is read back and sent; the call blocks
SendRequest ==
    /\ pc = "request"
    /\ in_flight' = in_flight \cup {i}
    /\ requests' = Append(requests, i)
    /\ pc' = "await"
    /\ UNCHANGED <<fsVars, envVars, mainVars, exc, stdout, chunk_size_ms, audio,
                   chunks, transcripts, i, temp_files, ydl_calls, outcomes, writes>>

\* lines 81-82, 102: the response holds a transcript
ResponseOk ==
    /\ pc = "await"
    /\ \E reply \in Replies :
        /\ transcripts' = OnChunkTranscript(transcripts, reply)
        /\ outcomes' = Append(outcomes, [failed |-> FALSE, sent |-> TRUE, reply |-> reply])
    /\ in_flight' = in_flight \ {i}
    /\ temp_files' = temp_files \ {i}
    /\ i' = i + 1
    /\ pc' = "chunk"
    /\ UNCHANGED <<fsVars, envVars, mainVars, exc, stdout, chunk_size_ms, audio,
                   chunks, ydl_calls, requests, writes>>

\* (mutant) a failed request is sent again
RequestFailsRetried ==
    /\ pc = "await"
    /\ stdout' = Echo(stdout, "Error processing chunk ", i)
    /\ in_flight' = in_flight \ {i}
    /\ pc' = "request"
    /\ UNCHANGED <<fsVars, envVars, mainVars, exc, chunk_size_ms, audio, chunks,
                   transcripts, i, temp_files, histVars>>

\* lines 81-82, 103-105: the call times out or fails, or its response has
\* no transcript; the loop's handler records the placeholder
RequestFails ==
    /\ pc = "await"
    /\ stdout' = Echo(stdout, "Error processing chunk ", i)
    /\ transcripts' = OnChunkError(transcripts)
    /\ outcomes' = Append(outcomes, [failed |-> TRUE, sent |-> TRUE, reply |-> NoneVal])
    /\ in_flight' = in_flight \ {i}
    /\ temp_files' = temp_files \ {i}
    /\ i' = i + 1
    /\ pc' = "chunk"
    /\ UNCHANGED <<fsVars, envVars, mainVars, exc, chunk_size_ms, audio, chunks,
                   ydl_calls, requests, writes>>

\* line 108
Combine(ts) == Join(<<32>>, ts)

\* line 108: the loop is over
JoinTranscripts ==
    /\ pc = "chunk"
    /\ i > Len(chunks)
    /\ transcript' = Combine(transcripts)
    /\ pc' = Return("save")
    /\ UNCHANGED <<fsVars, envVars, pipeVars, histVars, exc, stdout, deepgram,
                   video_id, existing_transcript, audio_path, video_title>>

(***************************************************************************)
(* save_transcript(text, video_id, video_title), lines 110-126             *)
(***************************************************************************)
\* lines 115-119
RecordOf(text, id, title) ==
    <<<<KeyVideoId, id>>, <<KeyVideoTitle, title>>, <<KeyTranscript, text>>>>

SaveTranscript ==
    /\ pc = "save"
    /\ LET output_path == TranscriptFile(video_id) IN
       /\ fs_transcripts' = Write(fs_transcripts, output_path,
                                  JsonDumpFile(RecordOf(transcript, video_id, video_title)))
       /\ stdout' = Echo(stdout, "\nTranscript saved to: ", output_path)
    /\ writes' = writes + 1
    /\ pc' = IF entry = "main" THEN "print" ELSE "lookup"
    /\ UNCHANGED <<fs_audio, envVars, mainVars, pipeVars, exc, ydl_calls, requests,
                   outcomes>>

\* lines 163-165
PrintTranscript ==
    /\ pc = "print"
    /\ stdout' = Echo(Echo(Echo(stdout, "\nTranscript:", <<>>), "-----------", <<>>),
                      "{}", transcript)
    /\ pc' = "done"
    /\ UNCHANGED <<fsVars, envVars, mainVars, pipeVars, histVars, exc>>

\* lines 167-168: except Exception as e: print(f"Exception: {e}")
Handler ==
    /\ pc = "raised"
    /\ entry = "main"
    /\ stdout' = Echo(stdout, "Exception: ", exc)
    /\ pc' = "done"
    /\ UNCHANGED <<fsVars, envVars, mainVars, pipeVars, histVars, exc>>


(***************************************************************************)
(* A run starts: the process is entered with nothing computed yet.         *)
(***************************************************************************)
FreshLocals ==
    /\ exc = NoException
    /\ deepgram = NoneVal
    /\ video_id = NoneVal
    /\ existing_transcript = NoneDict
    /\ audio_path = NoneVal
    /\ video_title = NoneVal
    /\ transcript = NoneVal
    /\ chunk_size_ms = Unbound
    /\ audio = Unbound
    /\ chunks = <<>>
    /\ transcripts = <<>>
    /\ i = 0
    /\ temp_files = {}
    /\ in_flight = {}
    /\ stdout = <<>>
    /\ ydl_calls = 0
    /\ requests = <<>>
    /\ outcomes = <<>>

Snapshot(key, ts, as) == [key |-> key, transcripts |-> ts, audio |-> as]

\* python transcribe.py, once more: the files stay, the process is new
Rerun ==
    /\ pc = "done"
    /\ entry = "main"
    /\ run < MaxRuns
    /\ run' = run + 1
    /\ environ' \in EnvKeys
    /\ start' = Snapshot(environ', fs_transcripts, fs_audio)
    /\ pc' = "main"
    /\ exc' = NoException
    /\ deepgram' = NoneVal
    /\ video_id' = NoneVal
    /\ existing_transcript' = NoneDict
    /\ audio_path' = NoneVal
    /\ video_title' = NoneVal
    /\ transcript' = NoneVal
    /\ chunk_size_ms' = Unbound
    /\ audio' = Unbound
    /\ chunks' = <<>>
    /\ transcripts' = <<>>
    /\ i' = 0
    /\ temp_files' = {}
    /\ in_flight' = {}
    /\ stdout' = <<>>
    /\ ydl_calls' = 0
    /\ requests' = <<>>
    /\ outcomes' = <<>>
    /\ UNCHANGED <<fsVars, youtube_url, entry, writes>>

(***************************************************************************)
(* Spec: runs of main() on the hard-coded URL, one after the other.        *)
(***************************************************************************)
\* the video id of the hard-coded URL
MainId == MainVideoId(YoutubeUrl)

\* transcripts/<id>.json as an earlier run left it ("a é" titled "T", or
\* the empty transcript of an empty audio), or cut short (unparseable)
EarlierRecords ==
    {JsonDumpFile(RecordOf(<<97, 32, 233>>, MainId, <<84>>)),
     JsonDumpFile(RecordOf(<<>>, MainId, MainId))}

CutShort == SubSeq(JsonDumpFile(RecordOf(<<97>>, MainId, <<84>>)), 1, 20)

Init ==
    /\ entry = "main"
    /\ pc = "main"
    /\ run = 1
    /\ writes = 0
    /\ youtube_url = YoutubeUrl
    /\ environ \in EnvKeys
    /\ fs_transcripts \in
        {NoFiles} \cup {Write(NoFiles, TranscriptFile(MainId), bytes) :
                            bytes \in EarlierRecords \cup {CutShort}}
    /\ fs_audio \in
        {NoFiles} \cup {Write(NoFiles, AudioFile(MainId), mp3) : mp3 \in AudioObjects}
    /\ start = Snapshot(environ, fs_transcripts, fs_audio)
    /\ FreshLocals

RunStep ==
    \/ LoadEnv
    \/ DeriveVideoId
    \/ GetExistingTranscript
    \/ UseExisting
    \/ NoExisting
    \/ DownloadCached
    \/ DownloadFetch
    \/ DownloadFails
    \/ LoadAudio
    \/ ExportChunk
    \/ ExportFails
    \/ SendRequest
    \/ ResponseOk
    \/ RequestFails
    \/ JoinTranscripts
    \/ SaveTranscript
    \/ PrintTranscript
    \/ Handler

Next == RunStep \/ Rerun

Spec == Init /\ [][Next]_vars

\* Every call of the run returns or raises: the downloader and each
\* request (60 s timeout, line 80) block the caller but end.
FairSpec == Spec /\ WF_vars(RunStep)

(***************************************************************************)
(* SpecPipe: transcribe_audio_file called on a file, with any chunk size.  *)
(***************************************************************************)
PipeFile == AudioFile(<<120>>)

InitPipe ==
    /\ entry = "transcribe_audio_file"
    /\ pc = "transcribe"
    /\ run = 1
    /\ writes = 0
    /\ youtube_url = YoutubeUrl
    /\ environ = <<107>>
    /\ fs_transcripts = NoFiles
    /\ fs_audio \in
        {Write(NoFiles, PipeFile, mp3) :
            mp3 \in {[decodable |-> TRUE, ms |-> n] : n \in 0..MaxAudioMs}
                        \cup {Undecodable}}
    /\ start = Snapshot(environ, fs_transcripts, fs_audio)
    /\ exc = NoException
    /\ deepgram = <<107>>
    /\ video_id = NoneVal
    /\ existing_transcript = NoneDict
    /\ audio_path = PipeFile
    /\ video_title = NoneVal
    /\ transcript = NoneVal
    /\ chunk_size_ms \in 1..MaxChunkMs
    /\ audio = Unbound
    /\ chunks = <<>>
    /\ transcripts = <<>>
    /\ i = 0
    /\ temp_files = {}
    /\ in_flight = {}
    /\ stdout = <<>>
    /\ ydl_calls = 0
    /\ requests = <<>>
    /\ outcomes = <<>>

NextPipe ==
    \/ LoadAudio
    \/ ExportChunk
    \/ ExportFails
    \/ SendRequest
    \/ ResponseOk
    \/ RequestFails
    \/ JoinTranscripts

SpecPipe == InitPipe /\ [][NextPipe]_vars


(***************************************************************************)
(* SpecStore: save_transcript(text, video_id, video_title), then           *)
(* get_existing_transcript(video_id), on any text.                         *)
(***************************************************************************)
MaxTextLen == 2     \* longest transcript text saved

\* a n " \ LF US(0x1f) é € and U+1F600
TextAlphabet == {97, 110, 34, 92, 10, 31, 233, 8364, 128512}

Texts == UNION {[1..n -> TextAlphabet] : n \in 0..MaxTextLen}

\* "", "T", the quoted non-ASCII title "é"
StoreTitles == {<<>>, <<84>>, <<34, 233, 34>>}

\* "x", and the id of the hard-coded URL
StoreIds == {<<120>>, MainId}

InitStore ==
    /\ entry = "save_then_load"
    /\ pc = "save"
    /\ run = 1
    /\ writes = 0
    /\ youtube_url = YoutubeUrl
    /\ environ = <<107>>
    /\ video_id \in StoreIds
    /\ video_title \in StoreTitles
    /\ transcript \in Texts
    /\ fs_transcripts \in
        {NoFiles,
         Write(NoFiles, TranscriptFile(video_id),
               JsonDumpFile(RecordOf(<<97, 32, 233>>, video_id, <<84>>))),
         Write(NoFiles, TranscriptFile(video_id), CutShort),
         Write(NoFiles, TranscriptFile(<<121>>),
               JsonDumpFile(RecordOf(<<97>>, <<121>>, <<84>>)))}
    /\ fs_audio = NoFiles
    /\ start = Snapshot(environ, fs_transcripts, fs_audio)
    /\ exc = NoException
    /\ deepgram = NoneVal
    /\ existing_transcript = NoneDict
    /\ audio_path = NoneVal
    /\ chunk_size_ms = Unbound
    /\ audio = Unbound
    /\ chunks = <<>>
    /\ transcripts = <<>>
    /\ i = 0
    /\ temp_files = {}
    /\ in_flight = {}
    /\ stdout = <<>>
    /\ ydl_calls = 0
    /\ requests = <<>>
    /\ outcomes = <<>>

NextStore == SaveTranscript \/ GetExistingTranscript

SpecStore == InitStore /\ [][NextStore]_vars

(***************************************************************************)
(* SpecUrl: the identifier main() derives from a URL (line 143), then      *)
(* download_youtube_audio(url) on the same URL.                            *)
(***************************************************************************)
MaxParams == 2      \* most query parameters of a URL

\* "https://www.youtube.com/watch"
UrlBase ==
    <<104, 116, 116, 112, 115, 58, 47, 47, 119, 119, 119, 46, 121, 111, 117,
      116, 117, 98, 101, 46, 99, 111, 109, 47, 119, 97, 116, 99, 104>>

\* v, pp, rv
ParamNames == {<<118>>, <<112, 112>>, <<114, 118>>}

\* ABC123, xyz, and the empty value
ParamValues == {<<65, 66, 67, 49, 50, 51>>, <<120, 121, 122>>, <<>>}

Queries == UNION {[1..n -> ParamNames \X ParamValues] : n \in 0..MaxParams}

\* base?name=value&name=value
UrlOf(query) ==
    UrlBase \o <<63>>
        \o Join(<<38>>, [k \in 1..Len(query) |-> query[k][1] \o <<61>> \o query[k][2]])

Urls == {UrlOf(query) : query \in Queries}

InitUrl ==
    /\ entry = "derive_then_download"
    /\ pc = "derive"
    /\ run = 1
    /\ writes = 0
    /\ youtube_url \in Urls
    /\ environ = <<107>>
    /\ fs_transcripts = NoFiles
    /\ fs_audio \in
        {NoFiles,
         Write(NoFiles, AudioFile(<<65, 66, 67, 49, 50, 51>>),
               [decodable |-> TRUE, ms |-> 1])}
    /\ start = Snapshot(environ, fs_transcripts, fs_audio)
    /\ FreshLocals

NextUrl == DeriveVideoId \/ DownloadCached \/ DownloadFetch \/ DownloadFails

SpecUrl == InitUrl /\ [][NextUrl]_vars


(***************************************************************************)
(* What the properties speak of.                                           *)
(***************************************************************************)
MainTranscriptFile == TranscriptFile(MainId)

MainAudioFile == AudioFile(MainId)

\* the run started with transcripts/<id>.json there
HadTranscriptFile == MainTranscriptFile \in DOMAIN start.transcripts

\* the record the run found stored
StoredRecord == JsonLoadFile(start.transcripts[MainTranscriptFile])

\* the transcript texts the run has printed
PrintedTranscripts ==
    {stdout[k][2] : k \in {j \in 1..Len(stdout) : stdout[j][1] = "{}"}}

\* the run started without the API key
HadNoKey == ~Truthy(start.key)

\* the chunks whose transcription request was issued, in the order of the chunks
SentChunks == SelectSeq([k \in 1..Len(outcomes) |-> k], LAMBDA k : outcomes[k].sent)

CeilDiv(a, b) == (a + b - 1) \div b

(***************************************************************************)
(* C1: a run of main() started with the transcript file of the identifier  *)
(* there never calls the downloader and never sends a transcription        *)
(* request; every transcript text it prints is the "transcript" field of   *)
(* the stored record, and with the API key set it ends having printed it.  *)
(***************************************************************************)
CachedTranscriptReused ==
    HadTranscriptFile =>
        /\ ydl_calls = 0
        /\ requests = <<>>
        /\ \A text \in PrintedTranscripts :
            StoredRecord.ok /\ text = DictGet(StoredRecord.val, KeyTranscript)
        /\ (pc = "done" /\ ~HadNoKey /\ StoredRecord.ok) => PrintedTranscripts # {}

\* a second run prints what the first run stored
CachedTranscriptReusedWitness ==
    /\ HadTranscriptFile
    /\ run = 2
    /\ writes = 1
    /\ pc = "done"
    /\ PrintedTranscripts # {}

(***************************************************************************)
(* C2: transcribe_audio_file returns the per-chunk results joined in chunk *)
(* order by one space, the result of a failed chunk being the placeholder  *)
(* and that of any other chunk its own transcript; no chunk's failure      *)
(* aborts the run, drops a segment or moves another segment.               *)
(***************************************************************************)
Expected(k) == IF outcomes[k].failed THEN Placeholder ELSE outcomes[k].reply

\* where segment k starts in the joined text, less one
RECURSIVE Offset(_)
Offset(k) == IF k = 1 THEN 0 ELSE Offset(k - 1) + Len(Expected(k - 1)) + 1

JoinedInChunkOrder ==
    /\ pc = "raised" => ~fs_audio[audio_path].decodable
    /\ pc = "returned" =>
        /\ Len(outcomes) = Len(chunks)
        /\ Len(transcripts) = Len(chunks)
        /\ Len(transcript) =
            IF chunks = <<>> THEN 0
            ELSE Offset(Len(chunks)) + Len(Expected(Len(chunks)))
        /\ \A k \in 1..Len(chunks) :
            /\ SubSeq(transcript, Offset(k) + 1, Offset(k) + Len(Expected(k))) = Expected(k)
            /\ k > 1 => transcript[Offset(k)] = 32

\* the second of three chunks failed, the first and the third did not
JoinedInChunkOrderWitness ==
    /\ pc = "returned"
    /\ Len(chunks) = 3
    /\ ~outcomes[1].failed
    /\ outcomes[2].failed
    /\ ~outcomes[3].failed

(***************************************************************************)
(* C3: an audio of L ms and a chunk size D > 0 give ceil(L / D) chunks,    *)
(* consecutive, not overlapping and covering [0, L); each is D long but    *)
(* the last, which is L mod D long when D does not divide L.               *)
(***************************************************************************)
PartitionCoversAudio ==
    pc \in {"chunk", "request", "await", "returned"} =>
        /\ Len(chunks) = CeilDiv(audio, chunk_size_ms)
        /\ chunks # <<>> => chunks[1].from = 0 /\ chunks[Len(chunks)].to = audio
        /\ \A k \in 1..(Len(chunks) - 1) :
            /\ chunks[k + 1].from = chunks[k].to
            /\ chunks[k].to - chunks[k].from = chunk_size_ms
        /\ chunks # <<>> =>
            chunks[Len(chunks)].to - chunks[Len(chunks)].from =
                IF audio % chunk_size_ms = 0 THEN chunk_size_ms
                ELSE audio % chunk_size_ms

\* a short last chunk after at least one full chunk
PartitionCoversAudioWitness ==
    /\ pc = "chunk"
    /\ Len(chunks) >= 2
    /\ audio % chunk_size_ms # 0
    /\ chunk_size_ms >= 2

(***************************************************************************)
(* C4, as claimed: every run of main() started with the mp3 cached and no  *)
(* transcript file ends with the downloader never called, one request      *)
(* sent for every chunk of the cached audio and a transcript file stored.  *)
(***************************************************************************)
HadAudioOnly == MainAudioFile \in DOMAIN start.audio /\ ~HadTranscriptFile

CachedChunks == CeilDiv(start.audio[MainAudioFile].ms, ChunkSizeMain)

CachedAudioAlwaysTranscribed ==
    (HadAudioOnly /\ pc = "done") =>
        /\ ydl_calls = 0
        /\ requests = [k \in 1..CachedChunks |-> k]
        /\ MainTranscriptFile \in DOMAIN fs_transcripts

(***************************************************************************)
(* C4, amended: a run of main() started with the mp3 cached and no         *)
(* transcript file never calls the downloader.  With the API key missing,  *)
(* or the key set and the mp3 undecodable, it ends in the handler of       *)
(* main() (ValueError, CouldntDecodeError) with no request sent and no     *)
(* transcript file written.  With the key set and the mp3 decodable it     *)
(* ends having attempted every chunk of the cached audio once, in order,   *)
(* with a request for each chunk whose export succeeded, and having stored *)
(* the record (titled with the identifier).                                *)
(***************************************************************************)
CachedAudioTranscribed ==
    HadAudioOnly =>
        /\ ydl_calls = 0
        /\ fs_audio = start.audio
        /\ (pc = "done" /\ HadNoKey) =>
            /\ exc = "ValueError"
            /\ requests = <<>>
            /\ outcomes = <<>>
            /\ fs_transcripts = start.transcripts
            /\ stdout[Len(stdout)] = <<"Exception: ", "ValueError">>
        /\ (pc = "done" /\ ~HadNoKey /\ ~start.audio[MainAudioFile].decodable) =>
            /\ exc = "CouldntDecodeError"
            /\ requests = <<>>
            /\ outcomes = <<>>
            /\ fs_transcripts = start.transcripts
            /\ stdout[Len(stdout)] = <<"Exception: ", "CouldntDecodeError">>
        /\ (pc = "done" /\ ~HadNoKey /\ start.audio[MainAudioFile].decodable) =>
            /\ exc = NoException
            /\ Len(outcomes) = CachedChunks
            /\ requests = SentChunks
            /\ MainTranscriptFile \in DOMAIN fs_transcripts
            /\ JsonLoadFile(fs_transcripts[MainTranscriptFile]) =
                [ok |-> TRUE, val |-> RecordOf(transcript, MainId, MainId)]

\* two chunks of cached audio transcribed and stored
CachedAudioTranscribedWitness ==
    /\ HadAudioOnly
    /\ pc = "done"
    /\ exc = NoException
    /\ requests = <<1, 2>>
    /\ MainTranscriptFile \in DOMAIN fs_transcripts

(***************************************************************************)
(* C5: errors met in the chunk loop are recovered there; every other error *)
(* (no key, failed download, undecodable audio, unparseable transcript     *)
(* file) reaches the handler of main(), which prints it after "Exception:" *)
(* and ends the run: nothing else is done after it, no transcript file is  *)
(* written, and every run ends.                                            *)
(***************************************************************************)
ErrorOfTheRun ==
    /\ HadNoKey => exc = "ValueError"
    /\ (~HadNoKey /\ HadTranscriptFile /\ ~StoredRecord.ok) => exc = "JSONDecodeError"
    /\ (~HadNoKey /\ ~HadTranscriptFile /\ MainAudioFile \notin DOMAIN fs_audio) =>
            exc = "DownloadError"
    /\ (~HadNoKey /\ ~HadTranscriptFile /\ MainAudioFile \in DOMAIN fs_audio
            /\ ~fs_audio[MainAudioFile].decodable) => exc = "CouldntDecodeError"

ErrorsEndTheRun ==
    /\ [][(pc \in {"chunk", "request", "await"}) => (pc' # "raised")]_vars
    /\ [][(pc = "raised") =>
            (/\ pc' = "done"
             /\ stdout' = Append(stdout, <<"Exception: ", exc>>)
             /\ UNCHANGED <<fsVars, mainVars, pipeVars, histVars, exc>>)]_vars
    /\ [][(pc = "done") => (run' = run + 1)]_vars
    /\ [](pc = "done" => ErrorOfTheRun)
    /\ []((pc = "done" /\ exc # NoException) =>
            /\ fs_transcripts = start.transcripts
            /\ Len(stdout) > 0
            /\ stdout[Len(stdout)] = <<"Exception: ", exc>>)
    /\ (pc # "done") ~> (pc = "done")

\* a run that met an undecodable mp3 has ended
ErrorsEndTheRunWitness ==
    /\ pc = "done"
    /\ exc = "CouldntDecodeError"
    /\ ydl_calls = 1

(***************************************************************************)
(* C6: a run started without the API key fails before any external call:   *)
(* no download, no request, no file touched; it ends through the handler   *)
(* with the configuration error.                                           *)
(***************************************************************************)
MissingKeyFailsFirst ==
    HadNoKey =>
        /\ ydl_calls = 0
        /\ requests = <<>>
        /\ deepgram = NoneVal
        /\ fs_audio = start.audio
        /\ fs_transcripts = start.transcripts
        /\ pc \in {"main", "raised", "done"}
        /\ pc = "raised" => exc = "ValueError"
        /\ pc = "done" => stdout = <<<<"Exception: ", "ValueError">>>>

\* such a run has ended, with nothing cached that could have spared the calls
MissingKeyFailsFirstWitness ==
    /\ start.key = NoneVal
    /\ pc = "done"
    /\ start.audio = NoFiles
    /\ start.transcripts = NoFiles

(***************************************************************************)
(* C7: over the runs for one identifier the transcript file is written at  *)
(* most once, by the first run whose pipeline completes; a run that finds  *)
(* it only reads it.                                                       *)
(***************************************************************************)
RecordWrittenOnce ==
    /\ writes <= 1
    /\ HadTranscriptFile => fs_transcripts = start.transcripts
    /\ pc = "print" => fs_transcripts # start.transcripts
    /\ fs_transcripts # start.transcripts =>
        /\ pc \in {"print", "done"}
        /\ exc = NoException
        /\ writes = 1
        /\ fs_transcripts =
            Write(start.transcripts, MainTranscriptFile,
                  JsonDumpFile(RecordOf(transcript, MainId, video_title)))

\* the third run reads what an earlier run wrote
RecordWrittenOnceWitness ==
    /\ run = 3
    /\ writes = 1
    /\ HadTranscriptFile
    /\ pc = "done"
    /\ exc = NoException

(***************************************************************************)
(* C8, as claimed: the identifier derived from a URL that has a v query    *)
(* parameter is the value of that parameter, and download_youtube_audio    *)
(* names its file after the same identifier.                               *)
(***************************************************************************)
\* the text after the first "?"
QueryOf(url) ==
    IF Find(url, <<63>>) = 0 THEN <<>>
    ELSE SubSeq(url, Find(url, <<63>>) + 1, Len(url))

\* its "&"-separated parameters
ParamsOf(url) == IF QueryOf(url) = <<>> THEN <<>> ELSE Split(QueryOf(url), <<38>>)

NameOf(param) ==
    IF Find(param, <<61>>) = 0 THEN param ELSE SubSeq(param, 1, Find(param, <<61>>) - 1)

ValueOf(param) ==
    IF Find(param, <<61>>) = 0 THEN <<>>
    ELSE SubSeq(param, Find(param, <<61>>) + 1, Len(param))

VParams(url) == SelectSeq(ParamsOf(url), LAMBDA param : NameOf(param) = <<118>>)

IdentifierIsVParameter ==
    (pc # "derive" /\ VParams(youtube_url) # <<>>) =>
        /\ video_id = ValueOf(VParams(youtube_url)[1])
        /\ pc = "returned" => audio_path = AudioFile(ValueOf(VParams(youtube_url)[1]))

(***************************************************************************)
(* C9: save_transcript(text, id, title) followed by                        *)
(* get_existing_transcript(id) returns the record whose video_id,          *)
(* video_title and transcript are id, title and text; the file that was at *)
(* the path is replaced, any other file is left.                           *)
(***************************************************************************)
SaveThenLoadRoundTrips ==
    /\ pc \in {"save", "lookup", "returned"}
    /\ pc # "save" =>
        /\ DOMAIN fs_transcripts = DOMAIN start.transcripts \cup {TranscriptFile(video_id)}
        /\ \A path \in DOMAIN start.transcripts :
            path # TranscriptFile(video_id) => fs_transcripts[path] = start.transcripts[path]
    /\ pc = "returned" =>
        /\ Len(existing_transcript) = 3
        /\ DictHas(existing_transcript, KeyVideoId)
        /\ DictHas(existing_transcript, KeyVideoTitle)
        /\ DictHas(existing_transcript, KeyTranscript)
        /\ DictGet(existing_transcript, KeyVideoId) = video_id
        /\ DictGet(existing_transcript, KeyVideoTitle) = video_title
        /\ DictGet(existing_transcript, KeyTranscript) = transcript

\* a text of a quote and a non-ASCII character, saved over an earlier
\* record and loaded
SaveThenLoadRoundTripsWitness ==
    /\ pc = "returned"
    /\ transcript = <<34, 128512>>
    /\ video_title = <<34, 233, 34>>
    /\ TranscriptFile(video_id) \in DOMAIN start.transcripts

(***************************************************************************)
(* C10, as claimed: the pipeline ends after exactly one request for every  *)
(* chunk, sent in chunk order.                                             *)
(***************************************************************************)
OneRequestForEveryChunk ==
    pc = "returned" => requests = [k \in 1..Len(chunks) |-> k]

(***************************************************************************)
(* C10, amended: requests are sent one at a time in increasing chunk       *)
(* order, the request of a chunk only after the chunk before it has its    *)
(* result, while only that chunk's temporary file exists; a chunk gets at  *)
(* most one request, and exactly one unless its export to the temporary    *)
(* file fails, so the pipeline ends after one request for every chunk that *)
(* was exported.                                                           *)
(***************************************************************************)
RequestsOneAtATime ==
    /\ Cardinality(in_flight) <= 1
    /\ in_flight # {} => pc = "await"
    /\ pc = "await" =>
        /\ in_flight = {i}
        /\ temp_files = {i}
        /\ Len(outcomes) = i - 1
        /\ requests = Append(SentChunks, i)
    /\ pc = "request" =>
        /\ temp_files = {i}
        /\ Len(outcomes) = i - 1
        /\ requests = SentChunks
    /\ pc \in {"chunk", "returned"} =>
        /\ temp_files = {}
        /\ Len(outcomes) = i - 1
        /\ requests = SentChunks
    /\ \A a, b \in 1..Len(requests) : a < b => requests[a] < requests[b]
    /\ pc = "returned" =>
        /\ Len(outcomes) = Len(chunks)
        /\ \A k \in 1..Len(chunks) : ~outcomes[k].sent => outcomes[k].failed
        /\ Len(requests) = Len(chunks) - Cardinality({k \in 1..Len(chunks) : ~outcomes[k].sent})

\* three chunks: a request that failed, an export that failed, a transcript
RequestsOneAtATimeWitness ==
    /\ pc = "returned"
    /\ Len(chunks) = 3
    /\ outcomes[1].failed /\ outcomes[1].sent
    /\ ~outcomes[2].sent
    /\ ~outcomes[3].failed
    /\ requests = <<1, 3>>

=============================================================================
